---- MODULE Spec2Model ----
(***************************************************************************)
(* Malleable-task scheduling with precedence constraints: the LIST         *)
(* scheduler of lp.rs / ilp.rs, the partial relation of algo.rs and the    *)
(* dynamic program of dp.rs, as state machines.                            *)
(*                                                                         *)
(* Rust vectors are TLA+ sequences; a Rust index i is position i + 1, read *)
(* through At.  Job indices, chain indices and processor positions keep    *)
(* the 0-based values of the source.                                       *)
(***************************************************************************)
EXTENDS Integers, Sequences, FiniteSets

\* Bounds of the explored instances.
MaxJobs == 2          \* LIST: jobs of an instance with constraints (one more without)
MaxDpConstraints == 3 \* DP: constraints of an instance

\* Processor counts m, processing times, lengths of the constraint list of LIST,
\* target completion times, job counts of the DP and job counts of the runs
\* with and without compress explored.
ProcessorCounts == 1..2
ProcessingTimes == 1..2
ConstraintCounts == 0..2
TargetCompletions == {0, 3}
DpJobCounts == 1..3
CompressJobCounts == 1..3

VARIABLES
    instance,          \* algo.rs Instance: processor_count, jobs, constraints, max_time
    allotments,        \* lp.rs: allotment per job handed to LIST
    completion_times,  \* lp.rs: rounded LP completion time per job
    compress,          \* lp.rs: the compress flag of schedule
    jobs,              \* lp.rs: the (index, available) list of LIST, here the flags
    scheduled_jobs,    \* lp.rs: the jobs recorded so far
    occupation,        \* lp.rs: free time per processor position
    uncompressed,      \* the Schedule of an earlier run of schedule without compress
    chains,            \* dp.rs: the chains returned by preprocess
    stack,             \* dp.rs: the active calls of search, outermost first
    known,             \* dp.rs: the HashSet of states passed down the search
    path,              \* dp.rs: the jobs of the Schedule that schedule returns
    problem,           \* lp.rs / ilp.rs: the precedence inequalities added to the program
    processing_times,  \* ilp.rs: the rounded solution value x[j] per job
    virtual_processing_times,  \* lp.rs: the solution values y[j][i] per job and allotment
    params,            \* main.rs: the arguments of the generate command
    pc,                \* where the running function stands
    panic              \* the message of the panic that ended it, "" when none

listVars ==
    <<allotments, completion_times, compress, jobs, scheduled_jobs, occupation, uncompressed>>

dpVars == <<chains, stack, known, path>>

phaseVars == <<problem, processing_times, virtual_processing_times>>

vars == <<instance, listVars, dpVars, phaseVars, params, pc, panic>>

----------------------------------------------------------------------------
\* Vector helpers.

At(v, i) == v[i + 1]

InBounds(v, i) == i >= 0 /\ i < Len(v)

Max2(a, b) == IF a >= b THEN a ELSE b

SetMax(S) == CHOOSE x \in S : \A y \in S : y <= x

SetMin(S) == CHOOSE x \in S : \A y \in S : x <= y

RECURSIVE SeqSum(_)
SeqSum(s) == IF s = <<>> THEN 0 ELSE Head(s) + SeqSum(Tail(s))

----------------------------------------------------------------------------
\* algo.rs: Job, PartialRelation.

JobCount(inst) == Len(inst.jobs)

JobIndices(inst) == 0 .. (JobCount(inst) - 1)

\* Job::processing_time: processing_times[allotment - 1]
processing_time(inst, job, allotment) == At(At(inst.jobs, job).processing_times, allotment - 1)

\* PartialRelation for Job::compare: find_map returns the answer of the first
\* constraint that mentions the two jobs in either direction.
RECURSIVE compareFrom(_, _, _, _)
compareFrom(relation, self, other, k) ==
    IF k > Len(relation) THEN "None"
    ELSE LET left == relation[k][1]
             right == relation[k][2]
         IN  IF self = left /\ other = right THEN "SomeTrue"
             ELSE IF other = left /\ self = right THEN "SomeFalse"
             ELSE compareFrom(relation, self, other, k + 1)

\* compare answering with the last constraint that mentions the two jobs.
RECURSIVE compare_last(_, _, _)
compare_last(relation, self, other) ==
    IF relation = <<>> THEN "None"
    ELSE LET left == relation[Len(relation)][1]
             right == relation[Len(relation)][2]
         IN  IF self = left /\ other = right THEN "SomeTrue"
             ELSE IF other = left /\ self = right THEN "SomeFalse"
             ELSE compare_last(SubSeq(relation, 1, Len(relation) - 1), self, other)

compare(relation, self, other) == compareFrom(relation, self, other, 1)

is_comparable(relation, self, other) == compare(relation, self, other) # "None"

less_than(relation, self, other) == compare(relation, self, other) = "SomeTrue"

greater_than(relation, self, other) == compare(relation, self, other) = "SomeFalse"

\* predecessors with is_comparable in the place of less_than: every other job
\* that shares a constraint with the job, whatever its direction.
predecessors_comparable(inst, job) ==
    {j \in JobIndices(inst) : job # j /\ is_comparable(inst.constraints, j, job)}

\* ilp.rs Instance::predecessors: the other jobs j with j.less_than(job).
predecessors(inst, job) ==
    {j \in JobIndices(inst) : job # j /\ less_than(inst.constraints, j, job)}

\* ilp.rs Instance::successors: the other jobs j with j.greater_than(job).
successors(inst, job) ==
    {j \in JobIndices(inst) : job # j /\ greater_than(inst.constraints, j, job)}

\* ScheduledJob::processing_time
scheduled_processing_time(inst, s) == processing_time(inst, s.job, s.allotment)

\* ScheduledJob::completion_time: start time plus processing time at the allotment.
completion_time(inst, s) == s.start_time + scheduled_processing_time(inst, s)

----------------------------------------------------------------------------
\* files.rs: the instance read from the CSV files.

\* max_time = n * (largest processing time of any job)
read_max_time(js) ==
    Len(js) * SetMax({0} \cup {js[j].processing_times[i] :
                                 j \in 1..Len(js), i \in 1..Len(js[1].processing_times)})

MakeJobs(pts) == [j \in 1..Len(pts) |-> [index |-> j - 1, processing_times |-> pts[j]]]

MakeInstance(m, pts, cons) ==
    [processor_count |-> m,
     jobs |-> MakeJobs(pts),
     constraints |-> cons,
     max_time |-> read_max_time(MakeJobs(pts))]

\* Processing times per allotment 1..m: positive, non-increasing in the allotment.
ProcessingTimeVectors(m) ==
    {v \in [1..m -> ProcessingTimes] : \A i \in 1..(m - 1) : v[i] >= v[i + 1]}

\* Constraint lists over n jobs: every endpoint is a known job index.
ConstraintLists(n, counts) ==
    UNION {[1..k -> (0..(n - 1)) \X (0..(n - 1))] : k \in counts}

\* Constraint lists of distinct pairs of two different jobs.
SimpleConstraintLists(n, counts) ==
    {c \in ConstraintLists(n, counts) :
        /\ \A k \in 1..Len(c) : c[k][1] # c[k][2]
        /\ \A k, l \in 1..Len(c) : k # l => c[k] # c[l]}

----------------------------------------------------------------------------
\* lp.rs / ilp.rs: the LIST loop of schedule.

IsScheduled(job) == \E k \in 1..Len(scheduled_jobs) : scheduled_jobs[k].job = job

\* scheduled_jobs.iter().find(|s| s.job.index == p.index)
ScheduledOf(job) ==
    scheduled_jobs[SetMin({k \in 1..Len(scheduled_jobs) : scheduled_jobs[k].job = job})]

\* Ready without the filter on the availability flag.
Ready_unfiltered(job) ==
    \A p \in predecessors(instance, job) : IsScheduled(p)

\* filter + filter_map: available, and every predecessor is found among scheduled_jobs.
Ready(job) ==
    /\ At(jobs, job)
    /\ \A p \in predecessors(instance, job) : IsScheduled(p)

ReadyJobs == {job \in JobIndices(instance) : Ready(job)}

suggested_start(job) ==
    IF compress THEN 0
    ELSE At(completion_times, job) - processing_time(instance, job, At(allotments, job))

\* predecessors_finished_at over the start times of the scheduled predecessors.
predecessors_started_at(job) ==
    LET done == {ScheduledOf(p).start_time : p \in predecessors(instance, job)}
    IN  IF done = {} THEN 0 ELSE SetMax(done)

\* The latest completion time of the scheduled predecessors, 0 without any.
predecessors_finished_at(job) ==
    LET done == {completion_time(instance, ScheduledOf(p)) : p \in predecessors(instance, job)}
    IN  IF done = {} THEN 0 ELSE SetMax(done)

\* fit read from the front of occupation: position allotment - 1.
fit_front(job) == At(occupation, At(allotments, job) - 1)

fit(job) == At(occupation, Len(occupation) - At(allotments, job))

\* earliest without the completion of the predecessors.
earliest_unordered(job) == Max2(suggested_start(job), fit(job))

earliest(job) ==
    Max2(Max2(suggested_start(job), predecessors_finished_at(job)), fit(job))

\* Pick keeping the last of several equally small elements.
Pick_last ==
    LET alpha == [j \in ReadyJobs |-> earliest(j)]
    IN  CHOOSE j \in ReadyJobs :
            \A k \in ReadyJobs : alpha[j] < alpha[k] \/ (alpha[j] = alpha[k] /\ j >= k)

\* min_by_key keeps the first of several equally small elements.
Pick ==
    LET alpha == [j \in ReadyJobs |-> earliest(j)]
    IN  CHOOSE j \in ReadyJobs :
            \A k \in ReadyJobs : alpha[j] < alpha[k] \/ (alpha[j] = alpha[k] /\ j <= k)

\* FreeAt with a strict comparison: positions that became free before start_time.
FreeAt_strict(start_time) ==
    {i \in 0..(Len(occupation) - 1) : At(occupation, i) < start_time}

\* The positions find() may return: those with occupation <= start_time.
FreeAt(start_time) == {i \in 0..(Len(occupation) - 1) : At(occupation, i) <= start_time}

\* The block of positions machine..machine+allotment set to done.
occupy(occ, machine, allotment, done) ==
    [i \in 1..Len(occ) |->
        IF i - 1 >= machine /\ i - 1 < machine + allotment THEN done ELSE occ[i]]

\* The rest of an iteration once (pick, start_time) is known: record the job and
\* update the occupation; the loop ends after jobs.len() iterations.
Record(pick, start_time) ==
    \E allotment \in {At(allotments, pick)} :
    \E job \in {[job |-> pick, allotment |-> allotment, start_time |-> start_time]} :
    \E free \in {FreeAt(start_time)} :
        /\ jobs' = [jobs EXCEPT ![pick + 1] = FALSE]
        /\ IF free = {}
           THEN /\ pc' = "panic"
                /\ panic' = "bad start time"
                /\ UNCHANGED <<scheduled_jobs, occupation>>
           ELSE \E machine \in {SetMin(free)} :
                IF machine + allotment > Len(occupation)
                THEN /\ pc' = "panic"
                     /\ panic' = "index out of bounds"
                     /\ UNCHANGED <<scheduled_jobs, occupation>>
                ELSE /\ occupation' = occupy(occupation, machine, allotment,
                                             completion_time(instance, job))
                     /\ scheduled_jobs' = Append(scheduled_jobs, job)
                     /\ pc' = IF Len(scheduled_jobs) + 1 = Len(jobs)
                              THEN "done" ELSE "list"
                     /\ panic' = ""

\* One iteration of `for _ in 0..jobs.len()`, and the return after the last one.
ListIteration ==
    /\ pc = "list"
    /\ \E ready \in {ReadyJobs} :
       IF ready = {}
       THEN /\ pc' = "panic"
            /\ panic' = "no job ready"
            /\ UNCHANGED <<jobs, scheduled_jobs, occupation>>
       ELSE \E pick \in {Pick} : Record(pick, earliest(pick))
    /\ UNCHANGED <<instance, allotments, completion_times, compress, uncompressed, dpVars,
                   phaseVars, params>>

\* The completion times handed to a run without compress: fewer than three
\* jobs any targets, three or more jobs a common target.
TargetVectors(n) ==
    IF n < 3 THEN [1..n -> TargetCompletions]
    ELSE {[j \in 1..n |-> t] : t \in TargetCompletions}

\* The diamond scenario: m = 2, jobs 0:[2,1], 1:[4,2], 2:[4,2], 3:[2,1],
\* constraints 0 -> 1, 0 -> 2, 1 -> 3, 2 -> 3.
Diamond ==
    MakeInstance(2, <<<<2, 1>>, <<4, 2>>, <<4, 2>>, <<2, 1>>>>,
                 <<<<0, 1>>, <<0, 2>>, <<1, 3>>, <<2, 3>>>>)

\* The state at the start of PHASE 2 for an instance, an allotment per job in
\* [1, m], a completion time per job and the compress flag.  Instances of up to
\* MaxJobs jobs carry constraints and targets (fewer than three jobs any
\* constraint list, three or more distinct constraints between different jobs);
\* those of MaxJobs + 1 jobs are unconstrained and compressed.  The diamond
\* scenario runs with allotment 1 for every job and compress.
InitList ==
    /\ \/ /\ instance = Diamond
          /\ allotments = <<1, 1, 1, 1>>
          /\ completion_times = <<0, 0, 0, 0>>
          /\ compress = TRUE
       \/ \E n \in 1..(MaxJobs + 1), m \in ProcessorCounts :
          \E pts \in [1..n -> ProcessingTimeVectors(m)] :
          \E cons \in (IF n > MaxJobs THEN {<<>>}
                       ELSE IF n < 3 THEN ConstraintLists(n, ConstraintCounts)
                       ELSE SimpleConstraintLists(n, ConstraintCounts)) :
          \E al \in [1..n -> 1..m], c \in (IF n <= MaxJobs THEN BOOLEAN ELSE {TRUE}) :
          \E ct \in (IF c THEN {[j \in 1..n |-> 0]} ELSE TargetVectors(n)) :
              /\ instance = MakeInstance(m, pts, cons)
              /\ allotments = al
              /\ completion_times = ct
              /\ compress = c
    /\ jobs = [j \in 1..JobCount(instance) |-> TRUE]
    /\ scheduled_jobs = <<>>
    /\ occupation = [i \in 1..instance.processor_count |-> 0]
    /\ uncompressed = <<>>
    /\ chains = <<>>
    /\ stack = <<>>
    /\ known = {}
    /\ path = <<>>
    /\ problem = {}
    /\ processing_times = <<>>
    /\ virtual_processing_times = <<>>
    /\ params = <<>>
    /\ pc = "list"
    /\ panic = ""

NextList == ListIteration

\* schedule is called again on the same instance, allotments and completion
\* times, now with compress; the Schedule of the run without it is kept.
Recompress ==
    /\ pc = "done"
    /\ jobs # <<>>
    /\ ~compress
    /\ uncompressed' = scheduled_jobs
    /\ compress' = TRUE
    /\ jobs' = [j \in 1..JobCount(instance) |-> TRUE]
    /\ scheduled_jobs' = <<>>
    /\ occupation' = [i \in 1..instance.processor_count |-> 0]
    /\ pc' = "list"
    /\ UNCHANGED <<instance, allotments, completion_times, dpVars, phaseVars, params, panic>>

\* The start of PHASE 2 of a run without compress that a run with compress
\* follows: up to one constraint between two different jobs.
InitCompress ==
    /\ \E n \in CompressJobCounts, m \in ProcessorCounts :
       \E pts \in [1..n -> ProcessingTimeVectors(m)] :
       \E cons \in SimpleConstraintLists(n, 0..1) :
       \E al \in [1..n -> 1..m], ct \in [1..n -> TargetCompletions] :
           /\ instance = MakeInstance(m, pts, cons)
           /\ allotments = al
           /\ completion_times = ct
    /\ compress = FALSE
    /\ jobs = [j \in 1..JobCount(instance) |-> TRUE]
    /\ scheduled_jobs = <<>>
    /\ occupation = [i \in 1..instance.processor_count |-> 0]
    /\ uncompressed = <<>>
    /\ chains = <<>>
    /\ stack = <<>>
    /\ known = {}
    /\ path = <<>>
    /\ problem = {}
    /\ processing_times = <<>>
    /\ virtual_processing_times = <<>>
    /\ params = <<>>
    /\ pc = "list"
    /\ panic = ""

NextCompress == ListIteration \/ Recompress

SpecCompress == InitCompress /\ [][NextCompress]_vars

SpecList == InitList /\ [][NextList]_vars

----------------------------------------------------------------------------
\* lp.rs: PHASE 1 of schedule.

\* compute_rho returns 0.430991 = RhoNum / RhoDen.
RhoNum == 430991
RhoDen == 1000000

\* Solution values of the virtual processing times and job counts explored.
VirtualTimes == 0..2
LpJobCounts == 1..2

\* A precedence inequality is the pair <<a, b>> of the indices in
\* completion_times[a] + processing_times[b] <= completion_times[b].
\* lp.rs adds one per job j and successor k of j: a = j, b = k.
lp_precedence(inst) ==
    UNION {{<<j, k>> : k \in successors(inst, j)} : j \in JobIndices(inst)}

\* The key of allotment i in the rounding: 0 when val < p[j, i] * rho, else p[j, i].
rounding_key(inst, job, i, val) ==
    IF val * RhoDen < processing_time(inst, job, i) * RhoNum THEN 0
    ELSE processing_time(inst, job, i)

\* (i, key) over i = 1..m, then max_by_key on the key, which keeps the last of
\* several equally large elements; unwrap_or(0) for an empty vector.
lp_allotment(inst, job, vec) ==
    LET key == [i \in 1..Len(vec) |-> rounding_key(inst, job, i, vec[i])]
    IN  IF vec = <<>> THEN 0
        ELSE SetMax({i \in 1..Len(vec) : \A k \in 1..Len(vec) : key[k] <= key[i]})

\* The program is defined: its precedence inequalities.  The critical path
\* length, computed by an external crate, only bounds variables of the program.
LpBuild ==
    /\ pc = "lp"
    /\ problem' = lp_precedence(instance)
    /\ pc' = "lp_solve"
    /\ UNCHANGED <<instance, listVars, dpVars, processing_times, virtual_processing_times,
                   params, panic>>

\* The vectors and flags at the start of PHASE 2.
StartList ==
    /\ jobs' = [j \in 1..JobCount(instance) |-> TRUE]
    /\ scheduled_jobs' = <<>>
    /\ occupation' = [i \in 1..instance.processor_count |-> 0]
    /\ pc' = "list"

\* solve fails, or returns a solution whose completion times are rounded and
\* whose virtual processing times are rounded to an allotment per job.  The
\* solver is an external crate: any solution values are possible.
LpRound ==
    /\ pc = "lp_solve"
    /\ \/ /\ pc' = "panic"
          /\ panic' = "no solution"
          /\ UNCHANGED <<listVars, virtual_processing_times>>
       \/ \E y \in [1..JobCount(instance) -> [1..instance.processor_count -> VirtualTimes]] :
          \E ct \in TargetVectors(JobCount(instance)) :
              /\ virtual_processing_times' = y
              /\ completion_times' = ct
              /\ allotments' = [j \in 1..JobCount(instance) |->
                                   lp_allotment(instance, j - 1, y[j])]
              /\ StartList
              /\ UNCHANGED <<compress, uncompressed, panic>>
    /\ UNCHANGED <<instance, dpVars, problem, processing_times, params>>

\* The instance and the compress flag handed to lp::schedule.
InitLp ==
    /\ \E n \in LpJobCounts, m \in ProcessorCounts :
       \E pts \in [1..n -> ProcessingTimeVectors(m)] :
       \E cons \in ConstraintLists(n, 0..1) :
           instance = MakeInstance(m, pts, cons)
    /\ compress \in BOOLEAN
    /\ allotments = <<>>
    /\ completion_times = <<>>
    /\ jobs = <<>>
    /\ scheduled_jobs = <<>>
    /\ occupation = <<>>
    /\ uncompressed = <<>>
    /\ chains = <<>>
    /\ stack = <<>>
    /\ known = {}
    /\ path = <<>>
    /\ problem = {}
    /\ processing_times = <<>>
    /\ virtual_processing_times = <<>>
    /\ params = <<>>
    /\ pc = "lp"
    /\ panic = ""

NextLp == LpBuild \/ LpRound \/ ListIteration

SpecLp == InitLp /\ [][NextLp]_vars

----------------------------------------------------------------------------
\* ilp.rs: PHASE 1 of schedule.

\* Job counts and processing times explored.
IlpJobCounts == {1, 2, 5}
IlpProcessingTimes == 1..3

\* ilp.rs adds one inequality per job i and predecessor j of i, with the
\* indices in the places completion_times[i] + processing_times[j]
\* <= completion_times[j]: a = i, b = j.
ilp_precedence(inst) ==
    UNION {{<<i, j>> : j \in predecessors(inst, i)} : i \in JobIndices(inst)}

\* (9): a denominator p[j, l + 1] - p[j, l] of r and s is zero.
DividesByZero(inst) ==
    \E l \in 1..(inst.processor_count - 1), j \in JobIndices(inst) :
        processing_time(inst, j, l + 1) = processing_time(inst, j, l)

\* abs_diff
AbsDiff(a, b) == IF a >= b THEN a - b ELSE b - a

\* closest_allotment keeping the last of several equally close allotments.
closest_allotment_last(inst, job, x) ==
    LET pts == At(inst.jobs, job).processing_times
    IN  SetMax({i \in 1..Len(pts) :
                   \A k \in 1..Len(pts) : AbsDiff(x, pts[i]) <= AbsDiff(x, pts[k])})

\* Job::closest_allotment: 1 + the index of the smallest abs_diff; min_by_key
\* keeps the first of several equally small elements.
closest_allotment(inst, job, x) ==
    LET pts == At(inst.jobs, job).processing_times
    IN  SetMin({i \in 1..Len(pts) :
                   \A k \in 1..Len(pts) : AbsDiff(x, pts[i]) <= AbsDiff(x, pts[k])})

\* compute_my(m).floor(): the largest integer k with
\* k <= 0.01 * (113 m - sqrt(6469 m^2 - 6300 m)), that is with
\* sqrt(6469 m^2 - 6300 m) <= 113 m - 100 k.
compute_my(m) ==
    SetMax({k \in 0..(2 * m) :
               /\ 113 * m - 100 * k >= 0
               /\ 6469 * m * m - 6300 * m <= (113 * m - 100 * k) * (113 * m - 100 * k)})

\* The program is defined: the precedence inequalities, then the coefficients
\* r and s of (9), whose integer division panics on a zero denominator.
IlpBuild ==
    /\ pc = "ilp"
    /\ problem' = ilp_precedence(instance)
    /\ IF DividesByZero(instance)
       THEN pc' = "panic" /\ panic' = "attempt to divide by zero"
       ELSE pc' = "ilp_solve" /\ panic' = ""
    /\ UNCHANGED <<instance, listVars, dpVars, processing_times, virtual_processing_times,
                   params>>

\* solve fails, or returns a solution whose processing and completion times
\* are rounded; each x[j] lies between p[j, m] and p[j, 1], the bounds of its
\* variable.  The allotment is closest_allotment(x[j]).min(my), my computed
\* from the number of jobs.
IlpRound ==
    /\ pc = "ilp_solve"
    /\ \/ /\ pc' = "panic"
          /\ panic' = "no solution"
          /\ UNCHANGED <<listVars, processing_times>>
       \/ \E x \in [1..JobCount(instance) -> IlpProcessingTimes] :
          \E ct \in TargetVectors(JobCount(instance)) :
          \E my \in {compute_my(JobCount(instance))} :
              /\ \A j \in JobIndices(instance) :
                    /\ x[j + 1] >= processing_time(instance, j, instance.processor_count)
                    /\ x[j + 1] <= processing_time(instance, j, 1)
              /\ processing_times' = x
              /\ completion_times' = ct
              /\ allotments' = [j \in 1..JobCount(instance) |->
                     IF closest_allotment(instance, j - 1, x[j]) <= my
                     THEN closest_allotment(instance, j - 1, x[j]) ELSE my]
              /\ StartList
              /\ UNCHANGED <<compress, uncompressed, panic>>
    /\ UNCHANGED <<instance, dpVars, problem, virtual_processing_times, params>>

\* The instance handed to ilp::schedule: one or two jobs with up to one
\* constraint, or five equal jobs without constraints.
InitIlp ==
    /\ \E n \in IlpJobCounts, m \in ProcessorCounts :
       \E pts \in {v \in [1..n -> {w \in [1..m -> IlpProcessingTimes] :
                                     \A i \in 1..(m - 1) : w[i] >= w[i + 1]}] :
                        n > 2 => \A j \in 1..n : v[j] = v[1]} :
       \E cons \in (IF n > 2 THEN {<<>>} ELSE ConstraintLists(n, 0..1)) :
           instance = MakeInstance(m, pts, cons)
    /\ compress = FALSE
    /\ allotments = <<>>
    /\ completion_times = <<>>
    /\ jobs = <<>>
    /\ scheduled_jobs = <<>>
    /\ occupation = <<>>
    /\ uncompressed = <<>>
    /\ chains = <<>>
    /\ stack = <<>>
    /\ known = {}
    /\ path = <<>>
    /\ problem = {}
    /\ processing_times = <<>>
    /\ virtual_processing_times = <<>>
    /\ params = <<>>
    /\ pc = "ilp"
    /\ panic = ""

NextIlp == IlpBuild \/ IlpRound \/ ListIteration

SpecIlp == InitIlp /\ [][NextIlp]_vars

----------------------------------------------------------------------------
\* main.rs / generate.rs: the generate command.

\* Arguments explored.
GenJobCounts == 1..4
GenMinTimes == 1..2
GenMaxTimes == 1..3
GenOmegas == 1..4
GenMinChains == 1..2
GenMaxChains == 1..4

\* The assertions of main before generate::instance is called.
Accepted(a) ==
    /\ a.n >= 1
    /\ a.min_p >= 1
    /\ a.max_p >= a.min_p
    /\ a.omega >= 1
    /\ a.omega <= a.n
    /\ a.min_chain >= 1
    /\ a.max_chain >= a.min_chain
    /\ a.max_chain <= a.n
    /\ a.min_chain * a.omega <= a.n
    /\ a.max_chain * a.omega >= a.n

Min2(a, b) == IF a <= b THEN a ELSE b

\* jobs_concave: per job p from min_p..max_p (exclusive) and cutoff from 1..=m,
\* processing time p / min(i, cutoff) for allotment i.
jobs_concave(n, m, min_p, max_p) ==
    {MakeJobs([j \in 1..n |-> [i \in 1..m |-> c[j][1] \div Min2(i, c[j][2])]]) :
        c \in [1..n -> (min_p..(max_p - 1)) \X (1..m)]}

\* jobs: per job and allotment a processing time from min_p..max_p (exclusive).
generate_jobs(n, m, min_p, max_p) ==
    {MakeJobs(pts) : pts \in [1..n -> [1..m -> min_p..(max_p - 1)]]}

\* The first omega - 1 of the shuffled 1..n-1, sorted: any omega - 1 of them.
Cuts(n, omega) ==
    {c \in [1..(omega - 1) -> 1..(n - 1)] : \A k \in 1..(omega - 2) : c[k] < c[k + 1]}

\* The loop of ensure_slice_size from i on.  A usize subtraction that would be
\* negative panics when overflow checks are compiled in and wraps to a huge
\* value otherwise.
RECURSIVE EnsureLoop(_, _, _, _, _)
EnsureLoop(v, min, max, i, checks) ==
    IF i >= Len(v) - 1 THEN [panic |-> "", cuts |-> v]
    ELSE LET max_remaining == Max2(max, min * (Len(v) - i))
             diff == At(v, i + 1) - At(v, i)
         IN  IF diff < 0 /\ checks
             THEN [panic |-> "attempt to subtract with overflow", cuts |-> <<>>]
             ELSE IF diff >= 0 /\ diff < min
             THEN EnsureLoop([v EXCEPT ![i + 2] = At(v, i) + min], min, max, i + 1, checks)
             ELSE IF diff < 0 \/ diff > max_remaining
             THEN EnsureLoop([v EXCEPT ![i + 2] = At(v, i) + max_remaining],
                             min, max, i + 1, checks)
             ELSE EnsureLoop(v, min, max, i + 1, checks)

\* ensure_slice_size: self.len() - 1 and last - 1 are usize subtractions; with
\* fewer than two elements one of them would be negative, and where it wraps
\* the index that follows is out of bounds.
ensure_slice_size(v, min, max, checks) ==
    IF Len(v) < 2
    THEN [panic |-> IF checks THEN "attempt to subtract with overflow"
                    ELSE "index out of bounds",
          cuts |-> <<>>]
    ELSE LET looped == EnsureLoop(v, min, max, 0, checks)
             diff == looped.cuts[Len(v)] - looped.cuts[Len(v) - 1]
         IN  IF looped.panic # "" THEN looped
             ELSE IF diff < 0 /\ checks
             THEN [panic |-> "attempt to subtract with overflow", cuts |-> <<>>]
             ELSE IF diff >= min /\ diff <= max THEN looped
             ELSE [panic |-> "unfortunate random values, cannot handle", cuts |-> <<>>]

\* (job0, job1) for job1 in job0..r, in order.
RECURSIVE PairsFrom(_, _, _)
PairsFrom(job0, job1, r) ==
    IF job1 >= r THEN <<>> ELSE <<<<job0, job1>>>> \o PairsFrom(job0, job1 + 1, r)

\* (l..r).flat_map(|job0| (job0..r).map(|job1| (job0, job1)))
RECURSIVE Block(_, _)
Block(l, r) == IF l >= r THEN <<>> ELSE PairsFrom(l, l, r) \o Block(l + 1, r)

\* The fold over the windows (l, r) of 0, cuts.., n.
RECURSIVE Windows(_, _)
Windows(w, k) ==
    IF k >= Len(w) THEN <<>> ELSE Block(w[k], w[k + 1]) \o Windows(w, k + 1)

generate_constraints(cuts, n) == Windows(<<0>> \o cuts \o <<n>>, 1)

\* The generate command: the assertions, then generate::instance, whose jobs
\* are drawn before its constraints.
Generate ==
    /\ pc = "generate"
    /\ IF ~Accepted(params)
       THEN pc' = "panic" /\ panic' = "assertion failed" /\ UNCHANGED instance
       ELSE IF params.min_p >= params.max_p
       THEN pc' = "panic" /\ panic' = "cannot sample empty range" /\ UNCHANGED instance
       ELSE \E checks \in BOOLEAN :
            \E js \in (IF params.concave
                        THEN jobs_concave(params.n, params.m, params.min_p, params.max_p)
                        ELSE generate_jobs(params.n, params.m, params.min_p, params.max_p)) :
            \E cuts \in Cuts(params.n, params.omega) :
            \E sized \in {ensure_slice_size(cuts, params.min_chain, params.max_chain, checks)} :
                IF sized.panic # ""
                THEN pc' = "panic" /\ panic' = sized.panic /\ UNCHANGED instance
                ELSE /\ instance' = [processor_count |-> params.m,
                                     jobs |-> js,
                                     constraints |-> generate_constraints(sized.cuts, params.n),
                                     max_time |-> params.n * params.max_p]
                     /\ pc' = "done"
                     /\ panic' = ""
    /\ UNCHANGED <<listVars, dpVars, phaseVars, params>>

InitGenerate ==
    /\ \E n \in GenJobCounts, m \in ProcessorCounts, min_p \in GenMinTimes, max_p \in GenMaxTimes,
          omega \in GenOmegas, min_chain \in GenMinChains, max_chain \in GenMaxChains,
          concave \in BOOLEAN :
           params = [n |-> n, m |-> m, min_p |-> min_p, max_p |-> max_p, omega |-> omega,
                     min_chain |-> min_chain, max_chain |-> max_chain, concave |-> concave]
    /\ instance = [processor_count |-> 0, jobs |-> <<>>, constraints |-> <<>>, max_time |-> 0]
    /\ compress = FALSE
    /\ allotments = <<>>
    /\ completion_times = <<>>
    /\ jobs = <<>>
    /\ scheduled_jobs = <<>>
    /\ occupation = <<>>
    /\ uncompressed = <<>>
    /\ chains = <<>>
    /\ stack = <<>>
    /\ known = {}
    /\ path = <<>>
    /\ problem = {}
    /\ processing_times = <<>>
    /\ virtual_processing_times = <<>>
    /\ pc = "generate"
    /\ panic = ""

NextGenerate == Generate

SpecGenerate == InitGenerate /\ [][NextGenerate]_vars

----------------------------------------------------------------------------
\* dp.rs: preprocess.

\* FitsChain with any() in the place of all().
FitsChain_any(inst, chain, job) ==
    \E k \in 1..Len(chain) : is_comparable(inst.constraints, chain[k], job)

\* The first loop: each job joins the first chain all of whose members are
\* comparable to it, or starts a new chain.
FitsChain(inst, chain, job) ==
    \A k \in 1..Len(chain) : is_comparable(inst.constraints, chain[k], job)

\* The first loop without its else: a job that joins a chain starts a new
\* chain as well.
RECURSIVE GreedyChains_no_else(_, _, _)
GreedyChains_no_else(inst, job_index, chs) ==
    IF job_index = JobCount(inst) THEN chs
    ELSE LET fits == {c \in 1..Len(chs) : FitsChain(inst, chs[c], job_index)}
             pushed == IF fits # {}
                       THEN [chs EXCEPT ![SetMin(fits)] = Append(@, job_index)]
                       ELSE chs
         IN  GreedyChains_no_else(inst, job_index + 1, Append(pushed, <<job_index>>))

RECURSIVE GreedyChains(_, _, _)
GreedyChains(inst, job_index, chs) ==
    IF job_index = JobCount(inst) THEN chs
    ELSE LET fits == {c \in 1..Len(chs) : FitsChain(inst, chs[c], job_index)}
         IN  IF fits # {}
             THEN GreedyChains(inst, job_index + 1,
                               [chs EXCEPT ![SetMin(fits)] = Append(@, job_index)])
             ELSE GreedyChains(inst, job_index + 1, Append(chs, <<job_index>>))

ChainOrders(chain) ==
    {q \in [1..Len(chain) -> {chain[k] : k \in 1..Len(chain)}] :
        \A e \in 1..Len(chain) : \E k \in 1..Len(chain) : q[k] = chain[e]}

\* The comparator of the sort is a strict total order on the chain: any two
\* different members are comparable, and less_than is transitive among them.
ComparatorIsTotalOrder(inst, chain) ==
    LET elems == {chain[k] : k \in 1..Len(chain)}
        lt(a, b) == less_than(inst.constraints, a, b)
    IN  /\ \A a, b \in elems : a # b => is_comparable(inst.constraints, a, b)
        /\ \A a, b, c \in elems :
              (a # b /\ b # c /\ a # c /\ lt(a, b) /\ lt(b, c)) => lt(a, c)

\* preprocess without the sort: a chain stays in the order of its pushes.
SortOutcomes_unsorted(inst, chain) == {[panic |-> "", chain |-> chain]}

\* chain.sort_by(compare): the sorted chain when the comparator is a total order
\* on it.  Otherwise the order of the result is unspecified, and the comparator
\* panics when it is handed two jobs that are not comparable.
SortOutcomes(inst, chain) ==
    IF ComparatorIsTotalOrder(inst, chain)
    THEN {[panic |-> "", chain |-> q] : q \in
            {q \in ChainOrders(chain) :
                \A i, k \in 1..Len(chain) : i < k => less_than(inst.constraints, q[i], q[k])}}
    ELSE {[panic |-> "", chain |-> q] : q \in ChainOrders(chain)} \cup
         (IF \E i, k \in 1..Len(chain) :
                 i # k /\ ~is_comparable(inst.constraints, chain[i], chain[k])
          THEN {[panic |-> "chain contains two non-comparable jobs", chain |-> <<>>]}
          ELSE {[panic |-> "comparison does not implement a total order", chain |-> <<>>]})

\* The chains after the first loop of preprocess.
greedy_chains(inst) == GreedyChains(inst, 0, <<>>)

\* The outcomes of preprocess: per chain the outcome of its sort.
preprocess(inst) ==
    LET chs == greedy_chains(inst)
        outs == [c \in 1..Len(chs) |-> SortOutcomes(inst, chs[c])]
        all == UNION {outs[c] : c \in 1..Len(chs)}
    IN  {r \in [1..Len(chs) -> all] : \A c \in 1..Len(chs) : r[c] \in outs[c]}

\* The panic of the first chain whose sort panics, "" when none does.
PanicOf(sorted) ==
    LET bad == {c \in 1..Len(sorted) : sorted[c].panic # ""}
    IN  IF bad = {} THEN "" ELSE sorted[SetMin(bad)].panic

\* State::empty
empty(omega) ==
    [ideal |-> [c \in 1..omega |-> 0],
     allotment |-> [c \in 1..omega |-> 0],
     completion_times |-> [c \in 1..omega |-> 0]]

\* State::add_job
add_job(state, chain, allot, compl) ==
    [ideal |-> [state.ideal EXCEPT ![chain + 1] = @ + 1],
     allotment |-> [state.allotment EXCEPT ![chain + 1] = allot],
     completion_times |-> [state.completion_times EXCEPT ![chain + 1] = compl]]

\* schedule, up to the first call of search.
Preprocess ==
    /\ pc = "preprocess"
    /\ \E sorted \in preprocess(instance) :
        IF PanicOf(sorted) # ""
        THEN /\ pc' = "panic"
             /\ panic' = PanicOf(sorted)
             /\ UNCHANGED dpVars
        ELSE /\ chains' = [c \in 1..Len(sorted) |-> sorted[c].chain]
             /\ stack' = <<[state |-> empty(Len(sorted)), pos |-> 0]>>
             /\ known' = {}
             /\ pc' = "search"
             /\ UNCHANGED <<path, panic>>
    /\ UNCHANGED <<instance, listVars, phaseVars, params>>

----------------------------------------------------------------------------
\* dp.rs: search.

\* state.ideal.iter().sum() == instance.jobs.len()
Terminal(inst, state) == SeqSum(state.ideal) = JobCount(inst)

\* state.ideal.iter().filter(|&&ideal| ideal != 0): the non-zero entries, in order.
\* enumerate() then numbers them 0, 1, ... by their place in this filtered list.
RECURSIVE FilterNonZero(_)
FilterNonZero(v) ==
    IF v = <<>> THEN <<>>
    ELSE IF Head(v) # 0 THEN <<Head(v)>> \o FilterNonZero(Tail(v))
    ELSE FilterNonZero(Tail(v))

\* The loop over the fronts that checks conditions 2 and 3 for a candidate, from
\* the enumerate() index chain_index on: "ok" when no front rejects the candidate,
\* "reject" at the first break, or the panic the loop ends in.
RECURSIVE CheckFronts(_, _, _, _, _, _)
CheckFronts(inst, chs, state, new_job_index, new_start_time, chain_index) ==
    IF chain_index >= Len(FilterNonZero(state.ideal)) THEN "ok"
    ELSE IF ~InBounds(At(chs, chain_index), At(FilterNonZero(state.ideal), chain_index) - 1)
    THEN "index out of bounds"
    ELSE LET ideal == At(FilterNonZero(state.ideal), chain_index)
             front_completion_time == At(state.completion_times, chain_index)
             front_job_index == At(At(chs, chain_index), ideal - 1)
         IN  IF /\ less_than(inst.constraints, front_job_index, new_job_index)
                /\ new_start_time < front_completion_time
             THEN "reject"
             ELSE IF At(state.allotment, chain_index) = 0
             THEN "processing time of allotment 0"
             ELSE IF new_start_time < front_completion_time
                        - processing_time(inst, front_job_index, At(state.allotment, chain_index))
             THEN "reject"
             ELSE CheckFronts(inst, chs, state, new_job_index, new_start_time, chain_index + 1)

\* The (time, diff) pairs of the capacity sweep, in the order flat_map yields
\* them: per enumerated front its start and its completion, both with the
\* allotment of the candidate.
RECURSIVE SweepPairs(_, _, _, _, _)
SweepPairs(inst, chs, state, allotment, chain_index) ==
    IF chain_index >= Len(FilterNonZero(state.ideal)) THEN <<>>
    ELSE LET ideal == At(FilterNonZero(state.ideal), chain_index)
             front_job_index == At(At(chs, chain_index), ideal - 1)
             front_completion_time == At(state.completion_times, chain_index)
             start_time == front_completion_time
                 - processing_time(inst, front_job_index, At(state.allotment, chain_index))
         IN  <<<<start_time, allotment>>, <<front_completion_time, 0 - allotment>>>>
             \o SweepPairs(inst, chs, state, allotment, chain_index + 1)

\* pairs.sort_by_key(|p| p.0) is stable: pair j comes no later than pair i when
\* its time is smaller, or equal with j <= i.  The utilisation after pair i is
\* the sum of the diffs up to it.
RECURSIVE UtilisationAt(_, _, _)
UtilisationAt(pairs, i, j) ==
    IF j > Len(pairs) THEN 0
    ELSE (IF pairs[j][1] < pairs[i][1] \/ (pairs[j][1] = pairs[i][1] /\ j <= i)
          THEN pairs[j][2] ELSE 0) + UtilisationAt(pairs, i, j + 1)

Exceeds(pairs, limit) == \E i \in 1..Len(pairs) : UtilisationAt(pairs, i, 1) > limit

\* The body of the innermost loop for one (chain_index, allotment, compl):
\* "skip" and "reject" are the `continue`s, "insert" reaches add_job, anything
\* else is the message of a panic.
Candidate(inst, chs, state, chain_index, allotment, compl) ==
    IF At(state.ideal, chain_index) = Len(At(chs, chain_index)) THEN "skip"
    ELSE LET new_job_index == At(At(chs, chain_index), At(state.ideal, chain_index))
             new_start_time == compl - processing_time(inst, new_job_index, allotment)
         IN  IF new_start_time < 0 THEN "skip"
             ELSE LET checked == CheckFronts(inst, chs, state, new_job_index, new_start_time, 0)
                  IN  IF checked # "ok" THEN checked
                      ELSE IF Exceeds(SweepPairs(inst, chs, state, allotment, 0),
                                      inst.processor_count)
                      THEN "reject"
                      ELSE "insert"

\* The three nested loops run through chain_index, allotment (1..m, zipped with
\* the processing times) and compl (0..max_time, exclusive) in this order; pos
\* numbers their iterations.
Iterations(inst, chs) == Len(chs) * inst.processor_count * inst.max_time

ChainAt(inst, pos) == pos \div (inst.processor_count * inst.max_time)

AllotmentAt(inst, pos) == ((pos \div inst.max_time) % inst.processor_count) + 1

ComplAt(inst, pos) == pos % inst.max_time

NewState(inst, state, pos) ==
    add_job(state, ChainAt(inst, pos), AllotmentAt(inst, pos), ComplAt(inst, pos))

\* Scan with known compared by the ideal alone: a new state counts as known
\* when a state of the same ideal was inserted before.
RECURSIVE Scan_by_ideal(_, _, _, _, _)
Scan_by_ideal(inst, chs, state, seen, pos) ==
    IF pos >= Iterations(inst, chs) THEN [pos |-> pos, kind |-> "exhausted"]
    ELSE LET kind == Candidate(inst, chs, state, ChainAt(inst, pos),
                               AllotmentAt(inst, pos), ComplAt(inst, pos))
         IN  IF \/ kind \in {"skip", "reject"}
                \/ (kind = "insert" /\ \E s \in seen :
                                          s.ideal = NewState(inst, state, pos).ideal)
             THEN Scan_by_ideal(inst, chs, state, seen, pos + 1)
             ELSE [pos |-> pos, kind |-> kind]

\* Runs the loops of one call of search from iteration pos until something other
\* than `continue` happens: a new state is inserted into known ("insert"), a
\* panic, or the loops end ("exhausted").
RECURSIVE Scan(_, _, _, _, _)
Scan(inst, chs, state, seen, pos) ==
    IF pos >= Iterations(inst, chs) THEN [pos |-> pos, kind |-> "exhausted"]
    ELSE LET kind == Candidate(inst, chs, state, ChainAt(inst, pos),
                               AllotmentAt(inst, pos), ComplAt(inst, pos))
         IN  IF \/ kind \in {"skip", "reject"}
                \/ (kind = "insert" /\ NewState(inst, state, pos) \in seen)
             THEN Scan(inst, chs, state, seen, pos + 1)
             ELSE [pos |-> pos, kind |-> kind]

\* The ScheduledJob a call pushes in front of the tail its recursion returned.
PathEntry(inst, chs, frame) ==
    LET chain_index == ChainAt(inst, frame.pos)
        allotment == AllotmentAt(inst, frame.pos)
        new_job_index == At(At(chs, chain_index), At(frame.state.ideal, chain_index))
    IN  [job |-> new_job_index,
         allotment |-> allotment,
         start_time |-> ComplAt(inst, frame.pos) - processing_time(inst, new_job_index, allotment)]

\* One call of search makes progress: it returns Some (and so do all its
\* callers, each pushing its job), recurses into a new state, returns None to
\* its caller, or panics.
Search ==
    /\ pc = "search"
    /\ \E top \in {stack[Len(stack)]} :
       IF Terminal(instance, top.state)
       THEN /\ path' = [k \in 1..(Len(stack) - 1) |-> PathEntry(instance, chains, stack[k])]
            /\ pc' = "done"
            /\ UNCHANGED <<chains, stack, known, panic>>
       ELSE \E ev \in {Scan(instance, chains, top.state, known, top.pos)} :
            IF ev.kind = "insert"
            THEN \E new_state \in {NewState(instance, top.state, ev.pos)} :
                 /\ known' = known \cup {new_state}
                 /\ stack' = Append([stack EXCEPT ![Len(stack)].pos = ev.pos],
                                    [state |-> new_state, pos |-> 0])
                 /\ UNCHANGED <<chains, path, pc, panic>>
            ELSE IF ev.kind = "exhausted"
            THEN IF Len(stack) = 1
                 THEN /\ stack' = <<>>
                      /\ pc' = "panic"
                      /\ panic' = "no solution found"
                      /\ UNCHANGED <<chains, known, path>>
                 ELSE /\ stack' = [SubSeq(stack, 1, Len(stack) - 1)
                                      EXCEPT ![Len(stack) - 1].pos = @ + 1]
                      /\ UNCHANGED <<chains, known, path, pc, panic>>
            ELSE /\ pc' = "panic"
                 /\ panic' = ev.kind
                 /\ UNCHANGED dpVars
    /\ UNCHANGED <<instance, listVars, phaseVars, params>>

\* Scenario A: one job of processing time 5 on one processor.
ScenarioA == MakeInstance(1, <<<<5>>>>, <<>>)

\* Scenario C: the strict chain 0 -> 1 -> 2 on three processors, p = [6, 3, 2].
ScenarioC == MakeInstance(3, <<<<6, 3, 2>>, <<6, 3, 2>>, <<6, 3, 2>>>>, <<<<0, 1>>, <<1, 2>>>>)

\* The instance handed to dp::schedule by run_algo: fewer than three jobs with
\* any constraint list, three jobs with distinct constraints between different
\* jobs, or one of the two scenarios.
InitDp ==
    /\ \/ instance \in {ScenarioA, ScenarioC}
       \/ \E n \in DpJobCounts, m \in ProcessorCounts :
          \E pts \in [1..n -> ProcessingTimeVectors(m)] :
          \E cons \in (IF n < 3 THEN ConstraintLists(n, 0..MaxDpConstraints)
                       ELSE SimpleConstraintLists(n, 0..MaxDpConstraints)) :
              instance = MakeInstance(m, pts, cons)
    /\ allotments = <<>>
    /\ completion_times = <<>>
    /\ compress = FALSE
    /\ jobs = <<>>
    /\ scheduled_jobs = <<>>
    /\ occupation = <<>>
    /\ uncompressed = <<>>
    /\ chains = <<>>
    /\ stack = <<>>
    /\ known = {}
    /\ path = <<>>
    /\ problem = {}
    /\ processing_times = <<>>
    /\ virtual_processing_times = <<>>
    /\ params = <<>>
    /\ pc = "preprocess"
    /\ panic = ""

NextDp == Preprocess \/ Search

SpecDp == InitDp /\ [][NextDp]_vars

----------------------------------------------------------------------------
\* Properties of schedules.

\* The pairs (u, v) with a path of one or more constraints from u to v.
RECURSIVE Closure(_, _)
Closure(R, k) ==
    IF k = 0 THEN R
    ELSE Closure(R \cup {<<x[1][1], x[2][2]>> : x \in {y \in R \X R : y[1][2] = y[2][1]}},
                 k - 1)

ConstraintSet(inst) == {inst.constraints[k] : k \in 1..Len(inst.constraints)}

Reaches(inst) == Closure(ConstraintSet(inst), JobCount(inst))

\* No job precedes itself through one or more constraints.
Acyclic(inst) == \A j \in JobIndices(inst) : <<j, j>> \notin Reaches(inst)

\* Two different jobs precede each other through constraints.
CycleOfJobs(inst) ==
    \E u, v \in JobIndices(inst) :
        u # v /\ <<u, v>> \in Reaches(inst) /\ <<v, u>> \in Reaches(inst)

\* completion(j) = start(j) + p[j, allotment[j]] of an entry of a schedule.
Completion(inst, s) == s.start_time + processing_time(inst, s.job, s.allotment)

Makespan(inst, sched) ==
    SetMax({0} \cup {Completion(inst, sched[k]) : k \in 1..Len(sched)})

RECURSIVE UsageFrom(_, _, _, _)
UsageFrom(inst, sched, t, k) ==
    IF k > Len(sched) THEN 0
    ELSE (IF sched[k].start_time <= t /\ t < Completion(inst, sched[k])
          THEN sched[k].allotment ELSE 0) + UsageFrom(inst, sched, t, k + 1)

\* Processors in use at instant t.
Usage(inst, sched, t) == UsageFrom(inst, sched, t, 1)

\* P1: completion(u) <= start(v) for every constraint (u, v).
PrecedenceHolds(inst, sched) ==
    \A c \in ConstraintSet(inst) :
        /\ \E a \in 1..Len(sched) : sched[a].job = c[1]
        /\ \E b \in 1..Len(sched) : sched[b].job = c[2]
        /\ \A a, b \in 1..Len(sched) :
              (sched[a].job = c[1] /\ sched[b].job = c[2])
                  => Completion(inst, sched[a]) <= sched[b].start_time

\* P2: at every integer instant at most m processors are in use.
CapacityHolds(inst, sched) ==
    \A t \in 0..Makespan(inst, sched) : Usage(inst, sched, t) <= inst.processor_count

ListReturned == pc = "done" /\ jobs # <<>>

DpReturned == pc = "done" /\ chains # <<>>

----------------------------------------------------------------------------
\* The LIST scheduler.

\* C1: for an instance with acyclic constraints, allotments in [1, m], any
\* target completions and both values of compress, the schedule the LIST loop
\* returns has completion(u) <= start(v) for every constraint (u, v).
C1_ListPrecedence ==
    (ListReturned /\ Acyclic(instance)) => PrecedenceHolds(instance, scheduled_jobs)

\* A returned schedule of a constrained instance, run without compress, in which
\* a job starts exactly when its predecessor completes, later than its target.
C1_Witness ==
    /\ ListReturned /\ Acyclic(instance) /\ ~compress
    /\ \E a, b \in 1..Len(scheduled_jobs) :
          /\ <<scheduled_jobs[a].job, scheduled_jobs[b].job>> \in ConstraintSet(instance)
          /\ scheduled_jobs[b].start_time = Completion(instance, scheduled_jobs[a])
          /\ scheduled_jobs[b].start_time > suggested_start(scheduled_jobs[b].job)
          /\ scheduled_jobs[a].start_time > 0

\* C2: for an instance with acyclic constraints and allotments in [1, m], at
\* every integer instant t in [0, makespan] the jobs running at t in the
\* schedule the LIST loop returns hold at most m processors.
C2_ListCapacity ==
    (ListReturned /\ Acyclic(instance)) => CapacityHolds(instance, scheduled_jobs)

\* C7: when the LIST loop has finished, every job appears in the output exactly
\* once, with the allotment given as input and a start time >= 0.
C7_ListCoverage ==
    ListReturned =>
        /\ Len(scheduled_jobs) = JobCount(instance)
        /\ \A j \in JobIndices(instance) :
              /\ Cardinality({k \in 1..Len(scheduled_jobs) : scheduled_jobs[k].job = j}) = 1
              /\ ScheduledOf(j).allotment = At(allotments, j)
              /\ ScheduledOf(j).start_time >= 0

\* A finished run without compress of two or more jobs in which a target
\* completion is smaller than the job's processing time.
C7_Witness ==
    /\ ListReturned /\ ~compress /\ JobCount(instance) >= 2
    /\ \E j \in JobIndices(instance) : suggested_start(j) < 0
    /\ \E j \in JobIndices(instance) : ScheduledOf(j).start_time > 0

\* C8: for an instance with acyclic constraints every iteration of the LIST
\* loop finds a ready job, and the loop ends after exactly n iterations (each
\* records one job) without a panic.
C8_ListTermination ==
    \/ /\ pc # "panic"
       /\ pc = "list" => (Len(scheduled_jobs) < JobCount(instance) /\ ReadyJobs # {})
       /\ ListReturned => Len(scheduled_jobs) = JobCount(instance)
    \/ ~Acyclic(instance)

\* A finished run in which job 0 had to wait for job 1 to be scheduled.
C8_Witness ==
    /\ ListReturned /\ Acyclic(instance)
    /\ <<1, 0>> \in ConstraintSet(instance)
    /\ scheduled_jobs[1].job = 1

\* C9: whenever the constraints contain a cycle through two or more jobs, the
\* LIST loop ends in the panic "no job ready" and returns no schedule.
C9_CycleDetected ==
    (CycleOfJobs(instance) /\ pc # "list") => (pc = "panic" /\ panic = "no job ready")

----------------------------------------------------------------------------
\* The dynamic program.

\* C3: whenever schedule_dp returns a schedule for an instance with acyclic
\* constraints, completion(u) <= start(v) holds in it for every constraint.
C3_DpPrecedence ==
    (DpReturned /\ Acyclic(instance)) => PrecedenceHolds(instance, path)

\* C4: whenever schedule_dp returns a schedule, at every integer instant the
\* jobs running hold at most m processors.
C4_DpCapacity ==
    DpReturned => CapacityHolds(instance, path)

\* A schedule: per job an allotment in [1, m] and a start time in 0..horizon.
Schedules(inst, horizon) ==
    {[j \in 1..JobCount(inst) |-> [job |-> j - 1, allotment |-> f[j][1], start_time |-> f[j][2]]] :
        f \in [1..JobCount(inst) -> (1..inst.processor_count) \X (0..horizon)]}

\* A feasible schedule of the instance ends before the given time.
FeasibleBefore(inst, bound) ==
    \E sched \in Schedules(inst, bound - 2) :
        /\ Makespan(inst, sched) < bound
        /\ PrecedenceHolds(inst, sched)
        /\ CapacityHolds(inst, sched)

\* C5: whenever schedule_dp returns a schedule for an instance with acyclic
\* constraints, its makespan is the minimum over the feasible schedules: no
\* feasible schedule of the instance has a smaller one.
C5_DpExact ==
    (DpReturned /\ Acyclic(instance)) => ~FeasibleBefore(instance, Makespan(instance, path))

\* C6: for m = 1 and one job with p = [5], no constraints and max_time = 5, the
\* DP tries the completion time 5 and schedule_dp returns [(job 0, allotment 1,
\* start 0)].
C6_DpScenarioA ==
    (instance = ScenarioA /\ pc \notin {"preprocess", "search"}) =>
        (pc = "done" /\ path = <<[job |-> 0, allotment |-> 1, start_time |-> 0]>>)

\* The places (chain, position) of the chains.
ChainPositions == UNION {{<<c, k>> : k \in 1..Len(chains[c])} : c \in 1..Len(chains)}

\* C10: the chains preprocess returns contain every job index 0..n-1 in exactly
\* one chain, once, and no chain is empty.
C10_ChainsPartition ==
    chains # <<>> =>
        /\ \A c \in 1..Len(chains) : chains[c] # <<>>
        /\ \A j \in JobIndices(instance) :
              Cardinality({ck \in ChainPositions : chains[ck[1]][ck[2]] = j}) = 1
        /\ \A c \in 1..Len(chains) : \A k \in 1..Len(chains[c]) :
              chains[c][k] \in JobIndices(instance)

\* preprocess returned two chains, one of them of two jobs that the sort put in
\* the opposite order to their indices.
C10_Witness ==
    /\ Len(chains) = 2
    /\ \E c \in 1..2 : Len(chains[c]) = 2 /\ chains[c][1] > chains[c][2]

\* C11: for an instance with acyclic constraints, any two members of a chain
\* preprocess returns are directly comparable, and chain[i] less_than chain[k]
\* for all positions i < k.
C11_ChainsSorted ==
    \/ \A c \in 1..Len(chains) : \A i, k \in 1..Len(chains[c]) :
          i < k => /\ is_comparable(instance.constraints, chains[c][i], chains[c][k])
                   /\ less_than(instance.constraints, chains[c][i], chains[c][k])
    \/ ~Acyclic(instance)

\* preprocess returned, for acyclic constraints, a chain of three jobs that does
\* not begin with the job pushed first.
C11_Witness ==
    /\ Acyclic(instance)
    /\ \E c \in 1..Len(chains) : Len(chains[c]) = 3 /\ chains[c][1] # 0

\* The constraints contain a < b and b < c for three different jobs, but not a < c.
NotTransitivelyClosed(inst) ==
    \E a, b, c \in JobIndices(inst) :
        /\ a # b /\ b # c /\ a # c
        /\ <<a, b>> \in ConstraintSet(inst)
        /\ <<b, c>> \in ConstraintSet(inst)
        /\ <<a, c>> \notin ConstraintSet(inst)

\* C12: when the constraints contain 1 < 2 and 2 < 3 but not 1 < 3, preprocess
\* fails with "chain contains two non-comparable jobs".
C12_RejectsNonTransitive ==
    (NotTransitivelyClosed(instance) /\ pc # "preprocess")
        => (pc = "panic" /\ panic = "chain contains two non-comparable jobs")

\* C12 as amended: preprocess never fails with "chain contains two
\* non-comparable jobs"; for acyclic constraints that contain a < b and b < c
\* but not a < c it returns chains that partition the jobs, each sorted by
\* less_than.
C12_NeverIncomparable ==
    /\ panic # "chain contains two non-comparable jobs"
    /\ (NotTransitivelyClosed(instance) /\ pc # "preprocess") =>
          \/ /\ chains # <<>>
             /\ \A j \in JobIndices(instance) : \E ck \in ChainPositions : chains[ck[1]][ck[2]] = j
             /\ \A c \in 1..Len(chains) : \A i, k \in 1..Len(chains[c]) :
                   i < k => less_than(instance.constraints, chains[c][i], chains[c][k])
          \/ ~Acyclic(instance)

\* preprocess returned for the constraints 0 < 1, 1 < 2 without 0 < 2: jobs 0
\* and 1 form a chain, job 2 a chain of its own.
C12_Witness ==
    /\ instance.constraints = <<<<0, 1>>, <<1, 2>>>>
    /\ chains = <<<<0, 1>>, <<2>>>>

----------------------------------------------------------------------------
\* The partial relation.

\* The answer of the first constraint, in list order, that is (j, k) or (k, j).
FirstMention(relation, j, k) ==
    LET hits == {i \in 1..Len(relation) : relation[i] = <<j, k>> \/ relation[i] = <<k, j>>}
    IN  IF hits = {} THEN "None"
        ELSE IF relation[SetMin(hits)] = <<j, k>> THEN "SomeTrue"
        ELSE "SomeFalse"

----------------------------------------------------------------------------
\* Laws and steps of the LIST scheduler.

\* C15: for every instance, allotment vector and target-completion vector, the
\* makespan of the run with compress is not larger than the makespan of the
\* run without compress.
C15_CompressMonotone ==
    (ListReturned /\ compress /\ uncompressed # <<>>)
        => Makespan(instance, scheduled_jobs) <= Makespan(instance, uncompressed)

\* The constraints are the edges of one path through all the jobs.
SinglePath(inst) ==
    \E q \in ChainOrders([j \in 1..JobCount(inst) |-> j - 1]) :
        ConstraintSet(inst) = {<<q[i], q[i + 1]>> : i \in 1..(JobCount(inst) - 1)}

\* The sum of p[j, 1] over all jobs.
TotalWork(inst) == SeqSum([j \in 1..JobCount(inst) |-> processing_time(inst, j - 1, 1)])

\* C16: with every allotment 1, constraints that form a single path through
\* all jobs and compress, the schedule the LIST loop returns has makespan
\* sum of p[j, 1], for every m.
C16_SinglePath ==
    (/\ ListReturned /\ compress
     /\ \A j \in JobIndices(instance) : At(allotments, j) = 1
     /\ SinglePath(instance))
        => Makespan(instance, scheduled_jobs) = TotalWork(instance)

\* A compressed run on two processors of the path 1 -> 0, both jobs with
\* allotment 1 and p[j, 1] = 2, returned.
C16_Witness ==
    /\ ListReturned /\ compress
    /\ instance.processor_count = 2
    /\ instance.constraints = <<<<1, 0>>>>
    /\ allotments = <<1, 1>>
    /\ TotalWork(instance) = 4

\* C17: on the diamond with allotment 1 for every job and compress the LIST
\* loop returns the start times 0, 2, 2, 6 for jobs 0, 1, 2, 3 and makespan 8;
\* jobs 1 and 2 hold different processor positions, both until 6.
C17_DiamondSchedule ==
    (instance = Diamond /\ allotments = <<1, 1, 1, 1>> /\ compress) =>
        /\ pc # "panic"
        /\ Len(scheduled_jobs) = 3 => occupation = <<6, 6>>
        /\ ListReturned =>
              /\ \A j \in 0..3 : IsScheduled(j)
              /\ ScheduledOf(0).start_time = 0
              /\ ScheduledOf(1).start_time = 2
              /\ ScheduledOf(2).start_time = 2
              /\ ScheduledOf(3).start_time = 6
              /\ Makespan(instance, scheduled_jobs) = 8

\* The run on the diamond returned.
C17_Witness == instance = Diamond /\ ListReturned /\ Len(scheduled_jobs) = 4

\* C18: at every iteration and for every ready job with allotment a, at least
\* a positions of occupation hold a free time <= occupation[m - a] and fewer
\* than a positions hold a strictly smaller one.
C18_FitCriterion ==
    pc = "list" =>
        \A job \in ReadyJobs :
            /\ Cardinality({i \in 1..Len(occupation) : occupation[i] <= fit(job)})
                  >= At(allotments, job)
            /\ Cardinality({i \in 1..Len(occupation) : occupation[i] < fit(job)})
                  < At(allotments, job)

\* An iteration of the LIST loop recorded a job.
Recorded == Len(scheduled_jobs') = Len(scheduled_jobs) + 1

\* C19: when a job with allotment a is recorded at start_time s, the a
\* consecutive positions of occupation set to its completion all had a free
\* time <= s before the update.
C19_OccupationUpdate ==
    [][Recorded =>
          LET rec == scheduled_jobs'[Len(scheduled_jobs')]
              machine == SetMin(FreeAt(rec.start_time))
          IN  \A i \in machine..(machine + rec.allotment - 1) :
                  At(occupation, i) <= rec.start_time]_vars

\* The unscheduled jobs all of whose direct predecessors are scheduled.
ReadySet ==
    {j \in JobIndices(instance) :
        ~IsScheduled(j) /\ \A p \in predecessors(instance, j) : IsScheduled(p)}

\* max(suggested_start, latest completion of the direct predecessors,
\* occupation[m - allotment]), the suggested start being 0 under compress.
EarliestFeasible(j) ==
    LET a == At(allotments, j)
        suggested == IF compress THEN 0
                     ELSE At(completion_times, j) - processing_time(instance, j, a)
        finished == SetMax({0} \cup {Completion(instance, scheduled_jobs[k]) :
                        k \in {l \in 1..Len(scheduled_jobs) :
                                  scheduled_jobs[l].job \in predecessors(instance, j)}})
        free == At(occupation, instance.processor_count - a)
    IN  Max2(Max2(suggested, finished), free)

\* C20: each iteration records the ready job with the smallest earliest
\* feasible start, the lowest index among equal minima, with its input
\* allotment and with exactly that earliest value as start_time.
C20_PickRule ==
    [][Recorded =>
          \A rec \in {scheduled_jobs'[Len(scheduled_jobs')]} :
          \A alpha \in {[k \in ReadySet |-> EarliestFeasible(k)]} :
              /\ rec.job \in ReadySet
              /\ rec.allotment = At(allotments, rec.job)
              /\ rec.start_time = alpha[rec.job]
              /\ \A k \in ReadySet :
                    \/ alpha[rec.job] < alpha[k]
                    \/ (alpha[rec.job] = alpha[k] /\ rec.job <= k)]_vars

\* A run without compress and without constraints recorded job 1 first, at an
\* earlier start than job 0, whose target lies later.
C20_Witness ==
    /\ ListReturned /\ ~compress
    /\ instance.constraints = <<>>
    /\ scheduled_jobs[1].job = 1
    /\ scheduled_jobs[2].job = 0
    /\ scheduled_jobs[1].start_time < scheduled_jobs[2].start_time

\* C28: for allotments in [1, m] the LIST loop never ends in "bad start time"
\* and never writes occupation out of bounds: at every update a position with
\* occupation <= start_time exists and the first one, machine, has
\* machine + allotment <= m.
C28_BlockInBounds ==
    /\ panic \notin {"bad start time", "index out of bounds"}
    /\ Len(occupation) = instance.processor_count

\* On two processors a job with allotment 2 was recorded after a job with
\* allotment 1 that still ran at time 0.
C28_Witness ==
    /\ ListReturned
    /\ Len(occupation) = 2
    /\ Len(scheduled_jobs) >= 2
    /\ scheduled_jobs[1].allotment = 1
    /\ scheduled_jobs[2].allotment = 2

----------------------------------------------------------------------------
\* The search of the dynamic program.

\* The chains that have a front in a state: those with ideal[c] # 0.
Fronts(state) == {c \in 0..(Len(state.ideal) - 1) : At(state.ideal, c) # 0}

\* The front of chain c in a state, with the allotment and the completion time
\* the state holds for the same chain.
FrontOf(inst, chs, state, c) ==
    LET front == At(At(chs, c), At(state.ideal, c) - 1)
    IN  [job |-> front,
         allotment |-> At(state.allotment, c),
         start_time |-> At(state.completion_times, c)
                            - processing_time(inst, front, At(state.allotment, c))]

\* Conditions 2 and 3 of a candidate against the own front of every chain.
OwnFrontsAdmit(inst, chs, state, new_job_index, new_start_time) ==
    \A c \in Fronts(state) :
        \A front \in {FrontOf(inst, chs, state, c)} :
            /\ less_than(inst.constraints, front.job, new_job_index)
                  => new_start_time >= Completion(inst, front)
            /\ new_start_time >= front.start_time

\* The candidates (chain_index, allotment, compl) of a state that reach the
\* checks: the chain has a next job and the start time is not negative.
Candidates(inst, chs, state) ==
    {cand \in (0..(Len(chs) - 1)) \X (1..inst.processor_count) \X (0..(inst.max_time - 1)) :
        /\ At(state.ideal, cand[1]) < Len(At(chs, cand[1]))
        /\ cand[3] >= processing_time(inst, At(At(chs, cand[1]), At(state.ideal, cand[1])),
                                      cand[2])}

\* C21: in every state search examines, a candidate passes the loop over the
\* fronts exactly when, for every chain c' with ideal[c'] # 0, its start is no
\* earlier than the start of the front of c' and, when that front precedes the
\* candidate, no earlier than completion[c']; front, completion and allotment
\* are those of the same chain c', also when a lower chain still has ideal 0.
C21_OwnFronts ==
    pc = "search" =>
        \A state \in {stack[Len(stack)].state} :
            \/ Terminal(instance, state)
            \/ \A cand \in Candidates(instance, chains, state) :
               \A job \in {At(At(chains, cand[1]), At(state.ideal, cand[1]))} :
               \A start \in {cand[3] - processing_time(instance, job, cand[2])} :
                   CheckFronts(instance, chains, state, job, start, 0)
                       = (IF OwnFrontsAdmit(instance, chains, state, job, start)
                          THEN "ok" ELSE "reject")

\* The instants at which the fronts of a state and a candidate together hold
\* more than m processors, each front counted with its own allotment.
Overloaded(inst, chs, state, entry) ==
    {t \in 0..inst.max_time :
        Usage(inst, <<entry>> \o [k \in 1..Cardinality(Fronts(state)) |->
                  FrontOf(inst, chs, state,
                          CHOOSE c \in Fronts(state) :
                              Cardinality({d \in Fronts(state) : d < c}) = k - 1)], t)
            > inst.processor_count}

\* A call of search recursed into a new state.
Recursed == pc = "search" /\ pc' = "search" /\ Len(stack') = Len(stack) + 1

\* C22: a candidate is rejected whenever the sweep over the starts (+a') and
\* completions (-a') of the fronts, each with its own allotment a', together
\* with the candidate's own two events exceeds m: search recurses only with a
\* candidate that keeps the total at or below m at every instant.
C22_SweepCapacity ==
    [][Recursed =>
          \A state \in {stack[Len(stack)].state} :
              Overloaded(instance, chains, state, PathEntry(instance, chains, stack'[Len(stack)]))
                  = {}]_vars

\* C23: the search ends in a failure only by exhaustion, with "no solution
\* found": it never evaluates a processing time for allotment 0 and never
\* indexes a chain out of bounds.
C23_OnlyExhaustion ==
    (pc = "panic" /\ chains # <<>>) => panic = "no solution found"

\* C24: search recurses only into a full state (ideal, allotment, completion
\* times) that is not yet in known and inserts it, known never loses a state,
\* and the candidates it passes over on the way are those rejected and those
\* whose full state is already in known: a state that shares its ideal with a
\* known one but differs in allotment or completion times is still expanded.
C24_Memoization ==
    [][/\ known \subseteq known'
       /\ Recursed =>
             \A top \in {stack[Len(stack)]} :
             \A new \in {stack'[Len(stack')].state} :
                 /\ new \notin known
                 /\ known' = known \cup {new}
                 /\ \A pos \in top.pos..(stack'[Len(stack)].pos - 1) :
                       \/ NewState(instance, top.state, pos) \in known
                       \/ Candidate(instance, chains, top.state, ChainAt(instance, pos),
                                    AllotmentAt(instance, pos), ComplAt(instance, pos))
                              # "insert"]_vars

\* Two states of the same ideal that differ in a completion time were both
\* inserted into known and expanded.
C24_Witness ==
    \E s, t \in known :
        s.ideal = t.ideal /\ s.completion_times # t.completion_times

----------------------------------------------------------------------------
\* The roundings and the programs of PHASE 1.

\* The allotments i whose virtual processing time reaches rho * p[j, i].
Qualifying(inst, job, vec) ==
    {i \in 1..inst.processor_count :
        vec[i] * RhoDen >= processing_time(inst, job, i) * RhoNum}

\* C25: the allotment the LP rounding selects for a job is the smallest i in
\* [1, m] with y[j, i] >= rho * p[j, i], which is the qualifying i of largest
\* p[j, i]; it is 1 when no i qualifies; it always lies in [1, m].
C25_LpRounding ==
    virtual_processing_times # <<>> =>
        \A j \in JobIndices(instance) :
        \A q \in {Qualifying(instance, j, At(virtual_processing_times, j))} :
            /\ At(allotments, j) = (IF q = {} THEN 1 ELSE SetMin(q))
            /\ \A i \in q : processing_time(instance, j, At(allotments, j))
                                  >= processing_time(instance, j, i)
            /\ At(allotments, j) \in 1..instance.processor_count

\* floor(0.01 * (113 n - sqrt(6469 n^2 - 6300 n))) is mu: 100 mu is at most
\* 113 n - sqrt(6469 n^2 - 6300 n), and 100 (mu + 1) is more.
IsMu(n, mu) ==
    /\ 113 * n - 100 * mu >= 0
    /\ (113 * n - 100 * mu) * (113 * n - 100 * mu) >= 6469 * n * n - 6300 * n
    /\ \/ 113 * n - 100 * (mu + 1) < 0
       \/ (113 * n - 100 * (mu + 1)) * (113 * n - 100 * (mu + 1)) < 6469 * n * n - 6300 * n

\* C26: the allotment the ILP rounding selects for a job is min(a*, mu): a* is
\* the smallest allotment among those that minimise |p[j, a] - x[j]| and mu =
\* floor(0.01 * (113 n - sqrt(6469 n^2 - 6300 n))) for n jobs; it lies in
\* [1, m].
C26_IlpRounding ==
    processing_times # <<>> =>
        \A j \in JobIndices(instance) :
        \A l \in {At(allotments, j)} :
        \A x \in {At(processing_times, j)} :
            /\ l \in 1..instance.processor_count
            /\ \E mu \in 1..JobCount(instance), astar \in 1..instance.processor_count :
                  /\ IsMu(JobCount(instance), mu)
                  /\ \A a \in 1..instance.processor_count :
                        \/ AbsDiff(processing_time(instance, j, a), x)
                              > AbsDiff(processing_time(instance, j, astar), x)
                        \/ /\ AbsDiff(processing_time(instance, j, a), x)
                                 = AbsDiff(processing_time(instance, j, astar), x)
                           /\ astar <= a
                  /\ l = (IF astar <= mu THEN astar ELSE mu)

\* Five jobs with p = [3, 1]: a job with x = 2, as far from 3 as from 1, got
\* allotment 1, and a job with x = 1 got allotment 2 = mu.
C26_Witness ==
    /\ JobCount(instance) = 5
    /\ processing_times # <<>>
    /\ At(instance.jobs, 0).processing_times = <<3, 1>>
    /\ \E j, k \in JobIndices(instance) :
          /\ At(processing_times, j) = 2 /\ At(allotments, j) = 1
          /\ At(processing_times, k) = 1 /\ At(allotments, k) = 2

\* C27: for acyclic constraints the precedence inequalities the ILP adds are
\* exactly C[u] + x[v] <= C[v] for the constraints (u, v), none with u and v
\* in the opposite places.
C27_IlpPrecedence ==
    (pc \notin {"ilp", "lp"} /\ Acyclic(instance)) => problem = ConstraintSet(instance)

\* C29: for every instance with positive, non-increasing processing times,
\* equal neighbours included, building the ILP never divides by zero.
C29_IlpCoefficients ==
    panic # "attempt to divide by zero"

----------------------------------------------------------------------------
\* The generator.

\* C30: for all arguments the generate command accepts, the instance it
\* writes has no constraint (j, j), acyclic constraints and processing times
\* that are positive and non-increasing in the allotment, and the command
\* does not abort for omega = 1 or omega = 2.
C30_GeneratedValid ==
    params # <<>> =>
        /\ pc = "done" =>
              /\ \A j \in JobIndices(instance) : <<j, j>> \notin ConstraintSet(instance)
              /\ Acyclic(instance)
              /\ \A j \in JobIndices(instance) : \A i \in 1..instance.processor_count :
                    /\ processing_time(instance, j, i) >= 1
                    /\ i > 1 => processing_time(instance, j, i - 1)
                                    >= processing_time(instance, j, i)
        /\ (Accepted(params) /\ params.omega \in {1, 2}) => pc # "panic"

====
